---------------------------- MODULE Spec2Model ----------------------------
(***************************************************************************)
(* A model of the touch-enabled Mandelbrot viewer (src/unnamed/part_000):  *)
(* the session object built by init_mandelbrot_program, the input handlers *)
(* that main() registers, and the host's animation-frame callback list.    *)
(*                                                                         *)
(* Numbers.  The program computes in IEEE doubles.  Zoom and offset are    *)
(* modelled as exact rationals <<n, d>> (d > 0, lowest terms): the value   *)
(* the double arithmetic approximates.  Pixel coordinates and pinch        *)
(* distances are integers; two-touch inputs are drawn from point pairs     *)
(* whose Euclidean distance is an integer, so Math.sqrt is exact on them.  *)
(***************************************************************************)
EXTENDS Integers, Sequences, FiniteSets, TLC

(* ------------------------------ bounds --------------------------------- *)

\* Number of requestAnimationFrame calls a behaviour may make from startup.
MaxRequests == 4

\* Largest number of touch points an event carries.
MaxTouches == 3

(* --------------------------- exact rationals --------------------------- *)

RECURSIVE GCD(_, _)
GCD(a, b) == IF b = 0 THEN a ELSE GCD(b, a % b)

Abs(i) == IF i < 0 THEN -i ELSE i

\* n/d in lowest terms with a positive denominator.
Rat(n, d) ==
  LET g == GCD(Abs(n), Abs(d))
      s == IF d < 0 THEN -1 ELSE 1
  IN  <<(s * n) \div g, (s * d) \div g>>

Num(i) == <<i, 1>>

\* Operands are in lowest terms, so a sum with zero and a product with zero
\* or one need no reduction.
RAdd(a, b) ==
  IF a[1] = 0 THEN b
  ELSE IF b[1] = 0 THEN a
  ELSE Rat(a[1] * b[2] + b[1] * a[2], a[2] * b[2])
RSub(a, b) ==
  IF b[1] = 0 THEN a
  ELSE Rat(a[1] * b[2] - b[1] * a[2], a[2] * b[2])
RMul(a, b) ==
  IF a[1] = 0 \/ b[1] = 0 THEN <<0, 1>>
  ELSE IF a = <<1, 1>> THEN b
  ELSE IF b = <<1, 1>> THEN a
  ELSE LET g1 == GCD(Abs(a[1]), b[2])
           g2 == GCD(Abs(b[1]), a[2])
       IN  Rat((a[1] \div g1) * (b[1] \div g2),
               (a[2] \div g2) * (b[2] \div g1))
RDiv(a, b) == RMul(a, Rat(b[2], b[1]))
RLt(a, b) == a[1] * b[2] < b[1] * a[2]
RLe(a, b) == a[1] * b[2] <= b[1] * a[2]
RNeg(a) == <<-a[1], a[2]>>
RMax(a, b) == IF RLt(a, b) THEN b ELSE a

(* ----------------------------- constants ------------------------------- *)

ZOOM_OUT_LIMIT == Rat(1, 1000)
PAN_LIMIT == RDiv(Num(1), ZOOM_OUT_LIMIT)

\* The literal 0.01 of the zoom steps.
ZoomRate == Rat(1, 100)

(* ------------------------------- inputs -------------------------------- *)

\* Pointer and touch positions, in pixels.
Points == {[x |-> 0, y |-> 0], [x |-> 100, y |-> 0], [x |-> 0, y |-> 150]}

\* drawingBufferWidth x drawingBufferHeight of the canvas.
Viewports == {<<800, 600>>, <<100, 50>>}

Keys == {"Alt", "Shift"}

Touch(pt) == [clientX |-> pt.x, clientY |-> pt.y]

\* Math.sqrt(x*x + y*y), on the arguments whose result is an integer.
magnitude(x, y) == CHOOSE r \in 0..(Abs(x) + Abs(y)) : r * r = x * x + y * y

IntegerDistance(t0, t1) ==
  LET dx == t1.clientX - t0.clientX
      dy == t1.clientY - t0.clientY
  IN  \E r \in 0..(Abs(dx) + Abs(dy)) : r * r = dx * dx + dy * dy

\* e.touches: the lists of up to two touch points, the two an integer apart,
\* and one list of each greater length (no handler reads a third touch).
ShortTouchLists ==
  {ts \in UNION {[1..n -> {Touch(pt) : pt \in Points}] : n \in 0..2} :
     Len(ts) = 2 => IntegerDistance(ts[1], ts[2])}

LongTouchLists ==
  {[i \in 1..n |-> Touch([x |-> 0, y |-> IF i = 1 THEN 0 ELSE 150])] :
     n \in 3..MaxTouches}

TouchLists == ShortTouchLists \cup LongTouchLists

\* e.touches of a touchend or touchcancel: the touches still on the surface,
\* which touch_end does not read.
RemainingTouchLists == {ts \in TouchLists : Len(ts) <= 1}

(* ------------------------------- state --------------------------------- *)

VARIABLES
  startup,      \* how main() ended: "start" (not run), "nogl", "null", "ok"
  registered,   \* main() assigned the handlers and listeners
  alerts,       \* number of alert() calls
  viewport,     \* <<gl.drawingBufferWidth, gl.drawingBufferHeight>>
  prog,         \* the session object, or Null
  held,         \* modifier keys physically held
  pending,      \* callbacks in the host's animation-frame callback list
  requests,     \* requestAnimationFrame calls made so far
  draws,        \* mandelbrot_draw calls made so far
  threw,        \* the last handler or frame callback raised a TypeError
  dragModes,    \* branches ("pan", "zoom") the moves of this drag have taken
  mismatched,   \* keys K seen, after a key event, with keys.shift # (K held)
  drawn,        \* the view and matrix of the last mandelbrot_draw observed
  frag,         \* one invocation of the fragment shader's main()
  budget        \* frame requests the behaviour may still make

vars == <<startup, registered, alerts, viewport, prog, held, pending,
          requests, draws, threw, dragModes, mismatched, drawn, frag, budget>>

\* No draw has been observed.
NotDrawn == [none |-> TRUE]

\* No fragment is being shaded.
NotShading == [pc |-> "idle"]

\* The session fields of the object init_mandelbrot_program returns.
Session ==
  [offset |-> [x |-> Num(0), y |-> Num(0)],
   zoom   |-> Rat(1, 1000),
   mouse  |-> [down |-> FALSE, last |-> [x |-> 0, y |-> 0]],
   pinch  |-> [down |-> FALSE, distance |-> 0],
   keys   |-> [shift |-> FALSE]]

\* The value of prog before main() assigns it, and when
\* init_mandelbrot_program returns null.
Null == [null |-> TRUE]

IsNull(p) == p = Null

\* load_shader / linkProgram outcomes: the build succeeds, or the vertex
\* shader, the fragment shader or the link fails.
Builds == {"ok", "vert", "frag", "link"}

init_mandelbrot_program(build) == IF build = "ok" THEN Session ELSE Null

(* ------------------------------ handlers ------------------------------- *)
(* A handler maps the session p and the event e to the session it leaves,  *)
(* the number of requestAnimationFrame(render) calls it made, and whether  *)
(* it ended by raising a TypeError (reading a property of null/undefined). *)

Result(p, r, t) == [prog |-> p, req |-> r, threw |-> t]

\* panlimit without its first test.
panlimit_lower_only(v) ==
  IF RLt(v, RNeg(PAN_LIMIT)) THEN RNeg(PAN_LIMIT) ELSE v

panlimit(v) ==
  IF RLt(PAN_LIMIT, v) THEN PAN_LIMIT
  ELSE IF RLt(v, RNeg(PAN_LIMIT)) THEN RNeg(PAN_LIMIT)
  ELSE v

\* The zoom step without Math.max.
ZoomFloor_unclamped(v) == v

\* Math.max(v, ZOOM_OUT_LIMIT)
ZoomFloor(v) == RMax(v, ZOOM_OUT_LIMIT)

\* A zoom step that ignores the current zoom: z - (d * 0.01).
ZoomStep_unscaled(z, d) == ZoomFloor(RSub(z, RMul(Num(d), ZoomRate)))

\* z - (z * d * 0.01), floor-clamped.
ZoomStep(z, d) == ZoomFloor(RSub(z, RMul(RMul(z, Num(d)), ZoomRate)))

\* The branch latched by the first move of a drag.
Zooming_latched(shiftNow, modes) ==
  IF modes = {} THEN shiftNow ELSE "zoom" \in modes

\* The branch a drag move takes: if (prog.keys.shift).  modes are the
\* branches the earlier moves of the same drag took, which the code ignores.
Zooming(shiftNow, modes) == shiftNow

\* A mouse_down that does not record the press position.
mouse_down_unrecorded(p, e) ==
  IF IsNull(p) THEN Result(p, 0, TRUE)
  ELSE Result([p EXCEPT !.mouse.down = TRUE], 1, FALSE)

mouse_down(p, e) ==
  IF IsNull(p) THEN Result(p, 0, TRUE)
  ELSE Result([p EXCEPT !.mouse.down = TRUE,
                        !.mouse.last = [x |-> e.x, y |-> e.y]], 1, FALSE)

mouse_up(p, e) ==
  IF IsNull(p) THEN Result(p, 0, TRUE)
  ELSE Result([p EXCEPT !.mouse.down = FALSE], 1, FALSE)

\* scale = 2.0 / prog.zoom / prog.gl.drawingBufferWidth
Scale(z) == RDiv(RDiv(Num(2), z), Num(viewport[1]))

\* ar = prog.gl.drawingBufferWidth / prog.gl.drawingBufferHeight
AspectRatio == RDiv(Num(viewport[1]), Num(viewport[2]))

\* The horizontal pan with the step divided by the aspect ratio.
PanX_over_aspect(ox, dx, z) ==
  panlimit(RSub(ox, RDiv(RMul(Num(dx), Scale(z)), AspectRatio)))

\* panlimit(prog.offset.x - dx * scale)
PanX(ox, dx, z) == panlimit(RSub(ox, RMul(Num(dx), Scale(z))))

\* panlimit(prog.offset.y + dy * scale * ar)
PanY(oy, dy, z) == panlimit(RAdd(oy, RMul(RMul(Num(dy), Scale(z)), AspectRatio)))

\* A mouse_move that changes the view without requesting a frame.
mouse_move_unrequested(p, e) ==
  IF IsNull(p) THEN Result(p, 0, TRUE)
  ELSE
    LET dx == e.x - p.mouse.last.x
        dy == e.y - p.mouse.last.y
        moved ==
          IF ~p.mouse.down THEN p
          ELSE IF Zooming(p.keys.shift, dragModes)
            THEN [p EXCEPT !.zoom = ZoomStep(p.zoom, dy)]
            ELSE [p EXCEPT !.offset.x = PanX(p.offset.x, dx, p.zoom),
                           !.offset.y = PanY(p.offset.y, dy, p.zoom)]
    IN  Result([moved EXCEPT !.mouse.last = [x |-> e.x, y |-> e.y]], 0, FALSE)

mouse_move(p, e) ==
  IF IsNull(p) THEN Result(p, 0, TRUE)
  ELSE
    LET dx == e.x - p.mouse.last.x
        dy == e.y - p.mouse.last.y
        moved ==
          IF ~p.mouse.down THEN p
          ELSE IF Zooming(p.keys.shift, dragModes)
            THEN [p EXCEPT !.zoom = ZoomStep(p.zoom, dy)]
            ELSE [p EXCEPT !.offset.x = PanX(p.offset.x, dx, p.zoom),
                           !.offset.y = PanY(p.offset.y, dy, p.zoom)]
    IN  Result([moved EXCEPT !.mouse.last = [x |-> e.x, y |-> e.y]],
               IF p.mouse.down THEN 1 ELSE 0, FALSE)

\* A key_down that also ends the drag.
key_down_releasing(p, e) ==
  IF IsNull(p) THEN Result(p, 0, TRUE)
  ELSE Result([p EXCEPT !.keys.shift = e.altKey, !.mouse.down = FALSE],
              0, FALSE)

key_down(p, e) ==
  IF IsNull(p) THEN Result(p, 0, TRUE)
  ELSE Result([p EXCEPT !.keys.shift = e.altKey], 0, FALSE)

key_up(p, e) ==
  IF IsNull(p) THEN Result(p, 0, TRUE)
  ELSE Result([p EXCEPT !.keys.shift = e.shiftKey], 0, FALSE)

touch_start(p, e) ==
  IF Len(e.touches) = 1 THEN
    IF IsNull(p) THEN Result(p, 0, TRUE)
    ELSE Result([p EXCEPT !.mouse.down = TRUE,
                          !.pinch.down = FALSE,
                          !.mouse.last = [x |-> e.touches[1].clientX,
                                          y |-> e.touches[1].clientY]],
                1, FALSE)
  ELSE IF Len(e.touches) = 2 THEN
    IF IsNull(p) THEN Result(p, 0, TRUE)
    ELSE Result([p EXCEPT !.pinch.down = TRUE,
                          !.mouse.down = FALSE,
                          !.pinch.distance =
                             magnitude(e.touches[2].clientX - e.touches[1].clientX,
                                       e.touches[2].clientY - e.touches[1].clientY)],
                1, FALSE)
  ELSE Result(p, 1, FALSE)

touch_move(p, e) ==
  IF IsNull(p) THEN Result(p, 0, TRUE)
  ELSE IF p.mouse.down THEN
    \* e.touches[0].clientX of an empty list reads a property of undefined.
    IF Len(e.touches) = 0 THEN Result(p, 0, TRUE)
    ELSE LET r == mouse_move(p, [x |-> e.touches[1].clientX,
                                 y |-> e.touches[1].clientY])
         IN  Result(r.prog, r.req + 1, FALSE)
  ELSE IF p.pinch.down THEN
    \* t1 = e.touches[1] is undefined with fewer than two touches.
    IF Len(e.touches) < 2 THEN Result(p, 0, TRUE)
    ELSE LET last_distance == p.pinch.distance
             distance == magnitude(e.touches[2].clientX - e.touches[1].clientX,
                                   e.touches[2].clientY - e.touches[1].clientY)
             delta == distance - last_distance
         IN  Result([p EXCEPT !.pinch.distance = distance,
                              !.zoom = ZoomStep(p.zoom, -delta)],
                    1, FALSE)
  ELSE Result(p, 1, FALSE)

\* A touch_end that ends the drag only.
touch_end_keeps_pinch(p, e) ==
  IF IsNull(p) THEN Result(p, 0, TRUE)
  ELSE Result([p EXCEPT !.mouse.down = FALSE], 0, FALSE)

touch_end(p, e) ==
  IF IsNull(p) THEN Result(p, 0, TRUE)
  ELSE Result([p EXCEPT !.mouse.down = FALSE, !.pinch.down = FALSE], 0, FALSE)

\* resize(): gl.viewport(...) and one frame request; prog is not read.
resize(p) == Result(p, 1, FALSE)

\* A render that requests the next frame itself.
render_rescheduling(p) == Result(p, 1, IsNull(p))

\* render(ts): one mandelbrot_draw(prog) call, which reads app.gl first.
render(p) == Result(p, 0, IsNull(p))

(* ------------------------------- Matrix -------------------------------- *)
(* A Matrix is its _data: sixteen numbers, row-major, 1-based here.  The   *)
(* entries are exact; the Float32Array rounding of each is not modelled.   *)

\* new Matrix(): the identity.
Identity4 ==
  << Num(1), Num(0), Num(0), Num(0),
     Num(0), Num(1), Num(0), Num(0),
     Num(0), Num(0), Num(1), Num(0),
     Num(0), Num(0), Num(0), Num(1) >>

\* into[(r*R)+c] += A[(r*R)+i] * X[(i*R)+c], for i = 0 .. 3.
\* A and X are evaluated once and bound to a and x.
Matrix_multiply(A, X) ==
  CHOOSE into \in
    { [k \in 1..16 |->
         LET r == (k - 1) \div 4
             c == (k - 1) % 4
             term(i) == RMul(a[(r * 4) + i + 1], x[(i * 4) + c + 1])
         IN  RAdd(RAdd(RAdd(RAdd(Num(0), term(0)), term(1)), term(2)),
                  term(3))] : a \in {A}, x \in {X} } : TRUE

\* A scale step that multiplies by z itself.
Matrix_scale_direct(A, z) ==
  Matrix_multiply(A,
    << z, Num(0), Num(0), Num(0),
       Num(0), z, Num(0), Num(0),
       Num(0), Num(0), Num(1), Num(0),
       Num(0), Num(0), Num(0), Num(1) >>)

\* scale(z): z = 1.0 / z, then this = this x diag(z, z, 1, 1).
Matrix_scale(A, z) ==
  LET zi == RDiv(Num(1), z)
  IN  Matrix_multiply(A,
        << zi, Num(0), Num(0), Num(0),
           Num(0), zi, Num(0), Num(0),
           Num(0), Num(0), Num(1), Num(0),
           Num(0), Num(0), Num(0), Num(1) >>)

\* orthographic(width, height): this = this x diag(2/height, 2/width, 1, 1).
Matrix_orthographic(A, width, height) ==
  Matrix_multiply(A,
    << RDiv(Num(2), Num(height)), Num(0), Num(0), Num(0),
       Num(0), RDiv(Num(2), Num(width)), Num(0), Num(0),
       Num(0), Num(0), Num(1), Num(0),
       Num(0), Num(0), Num(0), Num(1) >>)

\* translate(x, y): this = this x (identity with last row x, y, 0, 1).
Matrix_translate(A, x, y) ==
  Matrix_multiply(A,
    << Num(1), Num(0), Num(0), Num(0),
       Num(0), Num(1), Num(0), Num(0),
       Num(0), Num(0), Num(1), Num(0),
       x, y, Num(0), Num(1) >>)

\* mandelbrot_draw(app): the mvp.buffer passed to gl.uniformMatrix4fv.
mandelbrot_draw(app) ==
  Matrix_orthographic(
    Matrix_translate(Matrix_scale(Identity4, app.zoom),
                     app.offset.x, app.offset.y),
    viewport[1], viewport[2])

(* ------------------------------- actions ------------------------------- *)

Init ==
  /\ startup = "start"
  /\ registered = FALSE
  /\ alerts = 0
  /\ viewport \in Viewports
  /\ prog = Null
  /\ held = {}
  /\ pending = 0
  /\ requests = 0
  /\ draws = 0
  /\ threw = FALSE
  /\ dragModes = {}
  /\ mismatched = {}
  /\ drawn = NotDrawn
  /\ frag = NotShading
  /\ budget = MaxRequests

\* main(cid, use_fullscreen): gl is whether getContext("webgl") gave a
\* context, window is <<window.innerWidth, window.innerHeight>>.  With
\* use_fullscreen, fullscreen() gives the canvas, and so the drawing buffer,
\* the window's size and resize() requests a frame beside main's own.
Main(gl, build, use_fullscreen, window) ==
  /\ startup = "start"
  /\ IF ~gl
       THEN /\ startup' = "nogl"
            /\ alerts' = alerts + 1
            /\ UNCHANGED <<registered, viewport, prog, pending, requests,
                           budget>>
       ELSE LET p == init_mandelbrot_program(build)
                n == IF use_fullscreen THEN 2 ELSE 1
            IN  /\ startup' = IF IsNull(p) THEN "null" ELSE "ok"
                /\ alerts' = IF IsNull(p) THEN alerts + 1 ELSE alerts
                /\ prog' = p
                /\ registered' = TRUE
                /\ viewport' = IF use_fullscreen THEN window ELSE viewport
                /\ pending' = pending + n
                /\ requests' = requests + n
                /\ budget' = budget - n
  /\ UNCHANGED <<held, draws, threw, dragModes, mismatched, drawn, frag>>

\* The host delivers an event to a registered handler, whose result is r.
\* A behaviour makes at most budget frame requests, which bounds the number
\* of view-changing events it holds.
Deliver(r) ==
  /\ registered
  /\ r.req <= budget
  /\ prog' = r.prog
  /\ pending' = pending + r.req
  /\ requests' = requests + r.req
  /\ budget' = budget - r.req
  /\ threw' = r.threw
  /\ UNCHANGED <<startup, registered, alerts, viewport, draws, drawn, frag>>

\* The branch a move of the session p takes, added to those of this drag.
ModesAfterMove(p) ==
  IF ~IsNull(p) /\ p.mouse.down
    THEN dragModes \cup {IF Zooming(p.keys.shift, dragModes) THEN "zoom" ELSE "pan"}
    ELSE dragModes

MouseDown(pt) ==
  /\ Deliver(mouse_down(prog, pt))
  /\ dragModes' = {}
  /\ UNCHANGED <<held, mismatched>>

MouseUp(pt) ==
  /\ Deliver(mouse_up(prog, pt))
  /\ dragModes' = {}
  /\ UNCHANGED <<held, mismatched>>

MouseLeave(pt) ==
  /\ Deliver(mouse_up(prog, pt))
  /\ dragModes' = {}
  /\ UNCHANGED <<held, mismatched>>

MouseMove(pt) ==
  /\ Deliver(mouse_move(prog, pt))
  /\ dragModes' = ModesAfterMove(prog)
  /\ UNCHANGED <<held, mismatched>>

\* A key goes down (or auto-repeats): e.altKey and e.shiftKey tell which
\* modifiers are held once it is down.
KeyDownHandled(k) ==
  /\ held' = held \cup {k}
  /\ Deliver(key_down(prog, [altKey |-> "Alt" \in held',
                             shiftKey |-> "Shift" \in held']))
  /\ UNCHANGED dragModes

\* A held key goes up: e.altKey and e.shiftKey tell which are still held.
KeyUpHandled(k) ==
  /\ k \in held
  /\ held' = held \ {k}
  /\ Deliver(key_up(prog, [altKey |-> "Alt" \in held',
                           shiftKey |-> "Shift" \in held']))
  /\ UNCHANGED dragModes

KeyDown(k) == KeyDownHandled(k) /\ UNCHANGED mismatched

KeyUp(k) == KeyUpHandled(k) /\ UNCHANGED mismatched

TouchStart(ts) ==
  /\ Deliver(touch_start(prog, [touches |-> ts]))
  /\ dragModes' = IF Len(ts) \in {1, 2} THEN {} ELSE dragModes
  /\ UNCHANGED <<held, mismatched>>

TouchMove(ts) ==
  /\ Deliver(touch_move(prog, [touches |-> ts]))
  /\ dragModes' = IF Len(ts) = 0 THEN dragModes ELSE ModesAfterMove(prog)
  /\ UNCHANGED <<held, mismatched>>

TouchEnd(ts) ==
  /\ Deliver(touch_end(prog, [touches |-> ts]))
  /\ dragModes' = {}
  /\ UNCHANGED <<held, mismatched>>

TouchCancel(ts) ==
  /\ Deliver(touch_end(prog, [touches |-> ts]))
  /\ dragModes' = {}
  /\ UNCHANGED <<held, mismatched>>

\* The canvas's resize listener (and, with use_fullscreen, the window's).
Resize ==
  /\ Deliver(resize(prog))
  /\ UNCHANGED <<held, dragModes, mismatched>>

\* A frame: the host runs every callback in its list, each one render call.
RunCallbacks ==
  /\ pending > 0
  /\ LET r == render(prog)
     IN  /\ pending * r.req <= budget
         /\ prog' = r.prog
         /\ pending' = pending * r.req
         /\ requests' = requests + pending * r.req
         /\ budget' = budget - pending * r.req
         /\ threw' = r.threw
  /\ draws' = draws + pending
  /\ UNCHANGED <<startup, registered, alerts, viewport, held, dragModes,
                 mismatched, frag>>

Frame ==
  /\ RunCallbacks
  /\ UNCHANGED drawn

Next ==
  \/ \E gl \in BOOLEAN, build \in Builds, fs \in BOOLEAN, window \in Viewports :
       Main(gl, build, fs, window)
  \/ \E pt \in Points : MouseDown(pt)
  \/ \E pt \in Points : MouseUp(pt)
  \/ \E pt \in Points : MouseLeave(pt)
  \/ \E pt \in Points : MouseMove(pt)
  \/ \E k \in Keys : KeyDown(k)
  \/ \E k \in Keys : KeyUp(k)
  \/ \E ts \in TouchLists : TouchStart(ts)
  \/ \E ts \in TouchLists : TouchMove(ts)
  \/ \E ts \in RemainingTouchLists : TouchEnd(ts)
  \/ \E ts \in RemainingTouchLists : TouchCancel(ts)
  \/ Resize
  \/ Frame

Spec == Init /\ [][Next]_vars

(* The same program with every key event's outcome recorded in mismatched:  *)
(* the keys K for which, after some key event, keys.shift differed from     *)
(* "K is held".                                                             *)

MismatchedAfter(p, h) ==
  IF IsNull(p) THEN mismatched
  ELSE mismatched \cup {K \in Keys : p.keys.shift # (K \in h)}

KeyDownObserved(k) ==
  /\ KeyDownHandled(k)
  /\ mismatched' = MismatchedAfter(prog', held')

KeyUpObserved(k) ==
  /\ KeyUpHandled(k)
  /\ mismatched' = MismatchedAfter(prog', held')

NextKeys ==
  \/ \E gl \in BOOLEAN, build \in Builds, fs \in BOOLEAN, window \in Viewports :
       Main(gl, build, fs, window)
  \/ \E pt \in Points : MouseDown(pt)
  \/ \E pt \in Points : MouseUp(pt)
  \/ \E pt \in Points : MouseLeave(pt)
  \/ \E pt \in Points : MouseMove(pt)
  \/ \E k \in Keys : KeyDownObserved(k)
  \/ \E k \in Keys : KeyUpObserved(k)
  \/ \E ts \in TouchLists : TouchStart(ts)
  \/ \E ts \in TouchLists : TouchMove(ts)
  \/ \E ts \in RemainingTouchLists : TouchEnd(ts)
  \/ \E ts \in RemainingTouchLists : TouchCancel(ts)
  \/ Resize
  \/ Frame

SpecKeys == Init /\ [][NextKeys]_vars

(* The same program with each frame's draw recorded in drawn: the zoom and  *)
(* offset mandelbrot_draw read.  A frame whose callbacks throw on a null    *)
(* session draws nothing.                                                   *)

FrameObserved ==
  /\ RunCallbacks
  /\ drawn' = IF IsNull(prog) THEN drawn
              ELSE [zoom |-> prog.zoom, offset |-> prog.offset]

NextDrawn ==
  \/ \E gl \in BOOLEAN, build \in Builds, fs \in BOOLEAN, window \in Viewports :
       Main(gl, build, fs, window)
  \/ \E pt \in Points : MouseDown(pt)
  \/ \E pt \in Points : MouseUp(pt)
  \/ \E pt \in Points : MouseLeave(pt)
  \/ \E pt \in Points : MouseMove(pt)
  \/ \E k \in Keys : KeyDown(k)
  \/ \E k \in Keys : KeyUp(k)
  \/ \E ts \in TouchLists : TouchStart(ts)
  \/ \E ts \in TouchLists : TouchMove(ts)
  \/ \E ts \in RemainingTouchLists : TouchEnd(ts)
  \/ \E ts \in RemainingTouchLists : TouchCancel(ts)
  \/ Resize
  \/ FrameObserved

\* The host runs the callbacks it was asked to run.
SpecDrawn == Init /\ [][NextDrawn]_vars /\ WF_vars(FrameObserved)

(* The program with, in drawn, also the matrix each draw passed to          *)
(* gl.uniformMatrix4fv.                                                     *)

FrameUploading ==
  /\ RunCallbacks
  /\ drawn' = IF IsNull(prog) THEN drawn
              ELSE [zoom |-> prog.zoom, offset |-> prog.offset,
                    mvp |-> mandelbrot_draw(prog)]

NextMatrix ==
  \/ \E gl \in BOOLEAN, build \in Builds, fs \in BOOLEAN, window \in Viewports :
       Main(gl, build, fs, window)
  \/ \E pt \in Points : MouseDown(pt)
  \/ \E pt \in Points : MouseUp(pt)
  \/ \E pt \in Points : MouseLeave(pt)
  \/ \E pt \in Points : MouseMove(pt)
  \/ \E k \in Keys : KeyDown(k)
  \/ \E k \in Keys : KeyUp(k)
  \/ \E ts \in TouchLists : TouchStart(ts)
  \/ \E ts \in TouchLists : TouchMove(ts)
  \/ \E ts \in RemainingTouchLists : TouchEnd(ts)
  \/ \E ts \in RemainingTouchLists : TouchCancel(ts)
  \/ Resize
  \/ FrameUploading

SpecMatrix == Init /\ [][NextMatrix]_vars

(* A session met later in its life, zoomed in by an earlier gesture: the   *)
(* state main('#c', false), a frame, keydown Alt, mousedown (0, 900),      *)
(* mousemove (0, 0), mouseup, keyup Alt and a second frame leave, in which *)
(* main and the three mouse events have requested four frames and the two  *)
(* frames have run the four callbacks.  The behaviour goes on for          *)
(* MaxRequests - 1 more frame requests.                                    *)

ZoomInputs == {Rat(1, 100)}

InitZoomed ==
  /\ startup = "ok"
  /\ registered = TRUE
  /\ alerts = 0
  /\ viewport = <<800, 600>>
  /\ \E z \in ZoomInputs : prog = [Session EXCEPT !.zoom = z]
  /\ held = {}
  /\ pending = 0
  /\ requests = 4
  /\ draws = 4
  /\ threw = FALSE
  /\ dragModes = {}
  /\ mismatched = {}
  /\ drawn = NotDrawn
  /\ frag = NotShading
  /\ budget = MaxRequests - 1

NextZoomed ==
  \/ \E pt \in Points : MouseDown(pt)
  \/ \E pt \in Points : MouseUp(pt)
  \/ \E pt \in Points : MouseLeave(pt)
  \/ \E pt \in Points : MouseMove(pt)
  \/ \E k \in Keys : KeyDown(k)
  \/ \E k \in Keys : KeyUp(k)
  \/ \E ts \in TouchLists : TouchStart(ts)
  \/ \E ts \in TouchLists : TouchMove(ts)
  \/ \E ts \in RemainingTouchLists : TouchEnd(ts)
  \/ \E ts \in RemainingTouchLists : TouchCancel(ts)
  \/ Resize
  \/ Frame

SpecZoomed == InitZoomed /\ [][NextZoomed]_vars

(* --------------------------- fragment shader --------------------------- *)
(* One invocation of the fragment shader for a pixel whose interpolated    *)
(* complex_coord.xy is c.  The inputs are the points of the integer        *)
(* lattice, on which every product and sum of the loop is an integer that  *)
(* a highp float holds exactly.  frag.pc is the position in main(): "loop" *)
(* at the head of the for statement, "exit" after it, "done" once          *)
(* gl_FragColor is written; frag.broke tells that the loop was left by     *)
(* break.                                                                  *)

MaxC == 2

MAX == 1024

ESCAPE == 1000

\* vec2 c = complex_coord.xy
CInputs == [x : -MaxC..MaxC, y : -MaxC..MaxC]

\* (z.x * z.x) + (z.y * z.y)
SquaredLength(z) == (z.x * z.x) + (z.y * z.y)

\* z * z + c, both components from the old z.
Iterate(z, c) == [x |-> (z.x * z.x) - (z.y * z.y) + c.x,
                  y |-> 2 * z.x * z.y + c.y]

\* An escape test met by every iterate outside the unit disc.
Escaped_unit(zz) == zz >= 1

\* if ((z.x * z.x) + (z.y * z.y) >= ESCAPE)
Escaped(zz) == zz >= ESCAPE

\* A counter incremented before the escape test.
CountAfterPass_before_test(n, escaped) == n + 1

\* ++iterations, skipped by break.
CountAfterPass(n, escaped) == IF escaped THEN n ELSE n + 1

\* An interior test that also takes the count a break on the last pass leaves.
Interior_from_last_pass(n) == n >= MAX - 1

\* An interior test one short of the loop bound.
Interior_off_by_one(n) == n = MAX - 1

\* if (iterations == MAX)
Interior(n) == n = MAX

\* log(length(z)) has a positive argument when length(z) > 0.
LogLengthDefined(zz) == zz > 0

\* log(logzn / log(2.0)) has a positive argument when log(length(z)) > 0,
\* that is when length(z) > 1.
LogLogDefined(zz) == zz > 1

\* gl_FragColor: opaque black, or the ramp texel at index * 5 / MAX with
\* index = whole - smoothed, smoothed a function of the squared length zz.
Black == [kind |-> "black"]

Ramp(n, zz) == [kind |-> "ramp", whole |-> n + 1, zz |-> zz]

FragColor(n, z) == IF Interior(n) THEN Black ELSE Ramp(n, SquaredLength(z))

pageVars == <<startup, registered, alerts, viewport, prog, held, pending,
              requests, draws, threw, dragModes, mismatched, drawn, budget>>

InitShader ==
  /\ startup = "start"
  /\ registered = FALSE
  /\ alerts = 0
  /\ viewport \in Viewports
  /\ prog = Null
  /\ held = {}
  /\ pending = 0
  /\ requests = 0
  /\ draws = 0
  /\ threw = FALSE
  /\ dragModes = {}
  /\ mismatched = {}
  /\ drawn = NotDrawn
  /\ budget = MaxRequests
  /\ \E c \in CInputs :
       frag = [pc |-> "loop", c |-> c, z |-> [x |-> 0, y |-> 0], i |-> 0,
               iterations |-> 0, broke |-> FALSE]

\* One pass of the loop body, ended by break or by ++iterations and ++i.
LoopPass ==
  /\ frag.pc = "loop"
  /\ frag.i < MAX
  /\ LET z == Iterate(frag.z, frag.c)
         escaped == Escaped(SquaredLength(z))
     IN  frag' = [frag EXCEPT
                    !.z = z,
                    !.iterations = CountAfterPass(frag.iterations, escaped),
                    !.i = IF escaped THEN frag.i ELSE frag.i + 1,
                    !.broke = escaped,
                    !.pc = IF escaped THEN "exit" ELSE "loop"]
  /\ UNCHANGED pageVars

\* The loop condition i < MAX fails.
LoopEnd ==
  /\ frag.pc = "loop"
  /\ ~(frag.i < MAX)
  /\ frag' = [frag EXCEPT !.pc = "exit"]
  /\ UNCHANGED pageVars

\* The if statement that writes gl_FragColor.
WriteColor ==
  /\ frag.pc = "exit"
  /\ frag' = [pc |-> "done", c |-> frag.c, z |-> frag.z, i |-> frag.i,
              iterations |-> frag.iterations, broke |-> frag.broke,
              color |-> FragColor(frag.iterations, frag.z)]
  /\ UNCHANGED pageVars

NextShader == LoopPass \/ LoopEnd \/ WriteColor

\* The GPU runs an invocation it has started to its end.
SpecShader == InitShader /\ [][NextShader]_vars /\ WF_vars(NextShader)

(* Fragments off the lattice.  An orbit that stays inside the escape       *)
(* radius for a thousand passes and then leaves it starts at a coordinate  *)
(* that is no lattice point, and its iterates are rounded floats that no   *)
(* exact arithmetic follows.  How a highp float operation rounds is left   *)
(* to the implementation, and the pass on which such an orbit first        *)
(* passes the test of line 120 depends on it: the rounding direction is an *)
(* input of the invocation, chosen with its coordinate.  Of such a         *)
(* fragment the model keeps what the control flow of main() reads: z is    *)
(* known as "the iterate of pass k", and the outcome of the escape test on *)
(* it is taken from FirstEscape, the pass on which the statements of lines *)
(* 117-120, run in IEEE binary32 arithmetic with that rounding direction,  *)
(* first find x*x + y*y >= ESCAPE.                                         *)

\* Three coordinates -3/4 + (k / 2^24) i beside the cusp at -3/4.
LateCInputs ==
  { [x |-> Rat(-3, 4), y |-> Rat(51634, 16777216)],
    [x |-> Rat(-3, 4), y |-> Rat(51610, 16777216)],
    [x |-> Rat(-3, 4), y |-> Rat(51533, 16777216)] }

\* The rounding directions of a float operation: to nearest (ties to even),
\* toward zero, upward, downward.
Roundings == {"nearest", "zero", "up", "down"}

\* The first pass whose escape test succeeds for c under the rounding
\* direction round; passes beyond MAX are passes the loop does not have.
\* Rounding to nearest and downward agree on the three coordinates, and so
\* do rounding toward zero and upward, one pass later.
FirstEscape(c, round) ==
  CASE c.y = Rat(51634, 16777216) ->
         IF round \in {"nearest", "down"} THEN MAX - 1 ELSE MAX
    [] c.y = Rat(51610, 16777216) ->
         IF round \in {"nearest", "down"} THEN MAX ELSE MAX + 1
    [] c.y = Rat(51533, 16777216) ->
         IF round \in {"nearest", "down"} THEN MAX + 1 ELSE MAX + 2

\* The fragment being shaded is one of LateCInputs.
OffLattice == "pass" \in DOMAIN frag.z

InitLate ==
  /\ startup = "start"
  /\ registered = FALSE
  /\ alerts = 0
  /\ viewport \in Viewports
  /\ prog = Null
  /\ held = {}
  /\ pending = 0
  /\ requests = 0
  /\ draws = 0
  /\ threw = FALSE
  /\ dragModes = {}
  /\ mismatched = {}
  /\ drawn = NotDrawn
  /\ budget = MaxRequests
  /\ \E c \in LateCInputs, round \in Roundings :
       frag = [pc |-> "loop", c |-> c, round |-> round, z |-> [pass |-> 0],
               i |-> 0, iterations |-> 0, broke |-> FALSE]

\* One pass of the loop body on an off-lattice fragment.
LoopPassLate ==
  /\ OffLattice
  /\ frag.pc = "loop"
  /\ frag.i < MAX
  /\ LET z == [pass |-> frag.z.pass + 1]
         escaped == z.pass = FirstEscape(frag.c, frag.round)
     IN  frag' = [frag EXCEPT
                    !.z = z,
                    !.iterations = CountAfterPass(frag.iterations, escaped),
                    !.i = IF escaped THEN frag.i ELSE frag.i + 1,
                    !.broke = escaped,
                    !.pc = IF escaped THEN "exit" ELSE "loop"]
  /\ UNCHANGED pageVars

\* The colour statement on an off-lattice fragment: the ramp index has the
\* whole part iterations + 1, its smoothing term is not computed.
FragColorLate(n) ==
  IF Interior(n) THEN Black ELSE [kind |-> "ramp", whole |-> n + 1]

WriteColorLate ==
  /\ OffLattice
  /\ frag.pc = "exit"
  /\ frag' = [pc |-> "done", c |-> frag.c, round |-> frag.round,
              z |-> frag.z, i |-> frag.i,
              iterations |-> frag.iterations, broke |-> frag.broke,
              color |-> FragColorLate(frag.iterations)]
  /\ UNCHANGED pageVars

LatticePass == ~OffLattice /\ LoopPass

LatticeColor == ~OffLattice /\ WriteColor

InitFragment == InitShader \/ InitLate

NextFragment ==
  \/ LatticePass
  \/ LoopPassLate
  \/ LoopEnd
  \/ LatticeColor
  \/ WriteColorLate

\* Fragments of both kinds.
SpecFragment == InitFragment /\ [][NextFragment]_vars

(* ------------------------------- claims -------------------------------- *)

\* C1: once the session exists, after any sequence of mouse, touch and key
\* events the zoom is at least ZOOM_OUT_LIMIT, whatever the drag or pinch
\* deltas were.
C1_ZoomNeverBelowLimit ==
  ~IsNull(prog) => RLe(ZOOM_OUT_LIMIT, prog.zoom)

\* A drag move in zoom mode has raised the zoom above its floor.
C1_Witness ==
  /\ ~IsNull(prog)
  /\ "zoom" \in dragModes
  /\ RLt(ZOOM_OUT_LIMIT, prog.zoom)

\* C2: after every handler, each offset axis lies in [-PAN_LIMIT, PAN_LIMIT],
\* and PAN_LIMIT = 1000.
C2_OffsetWithinPanLimit ==
  /\ PAN_LIMIT = Num(1000)
  /\ ~IsNull(prog) =>
       /\ RLe(RNeg(PAN_LIMIT), prog.offset.x) /\ RLe(prog.offset.x, PAN_LIMIT)
       /\ RLe(RNeg(PAN_LIMIT), prog.offset.y) /\ RLe(prog.offset.y, PAN_LIMIT)

\* A pan move has driven an axis onto the limit.
C2_Witness ==
  /\ ~IsNull(prog)
  /\ "pan" \in dragModes
  /\ prog.offset.x = PAN_LIMIT

\* C3: a frame that runs after N >= 1 frame requests makes exactly one
\* mandelbrot_draw call.
C3_OneDrawPerFrame ==
  [][(~IsNull(prog) /\ Frame) => draws' = draws + 1]_vars

\* C4: the pinch gesture and the single-pointer drag are never both active.
C4_GesturesExclusive ==
  ~IsNull(prog) => ~(prog.pinch.down /\ prog.mouse.down)

\* C5: every input event that changes the session state issues exactly one
\* frame request.
C5_OneRequestPerChange ==
  [][(~IsNull(prog) /\ prog' # prog) => requests' = requests + 1]_vars

\* C6: draws happen only in a frame, one per pending request; the frame
\* leaves no request pending (render requests none), and every draw made
\* so far answers one request made earlier.
C6_DemandDriven ==
  [][/\ draws' # draws =>
          /\ pending > 0
          /\ draws' = draws + pending
          /\ pending' = 0
          /\ requests' = requests
     /\ draws' + pending' = requests']_vars

\* Frames have run for several requests and nothing is pending.
C6_Witness ==
  /\ ~IsNull(prog)
  /\ draws >= 3
  /\ pending = 0

\* A step that is a move of an active drag: mouse_move, or touch_move with
\* a touch, while mouse.down.  The position moved to is the one the step
\* leaves in mouse.last.
DragMoveStep ==
  /\ ~IsNull(prog)
  /\ ~IsNull(prog')
  /\ prog.mouse.down
  /\ requests' > requests
  /\ dragModes' # {}
  /\ \/ MouseMove(prog'.mouse.last)
     \/ TouchMove(<<Touch(prog'.mouse.last)>>)

\* C7: a drag move zooms exactly when keys.shift holds as that move is
\* handled, and pans otherwise, whatever the earlier moves of the drag did.
C7_ModifierSampledAtMove ==
  [][DragMoveStep =>
       LET dx == prog'.mouse.last.x - prog.mouse.last.x
           dy == prog'.mouse.last.y - prog.mouse.last.y
       IN  IF prog.keys.shift
             THEN /\ prog'.zoom = ZoomStep(prog.zoom, dy)
                  /\ prog'.offset = prog.offset
             ELSE /\ prog'.zoom = prog.zoom
                  /\ prog'.offset = [x |-> PanX(prog.offset.x, dx, prog.zoom),
                                     y |-> PanY(prog.offset.y, dy, prog.zoom)]]_vars

\* One drag has both panned and zoomed: the modifier changed between moves.
C7_Witness ==
  /\ ~IsNull(prog)
  /\ prog.mouse.down
  /\ dragModes = {"pan", "zoom"}

\* C8: for one modifier key K, keys.shift has equalled "K is held" after
\* every key event so far.
C8_FlagTracksOneKey ==
  \E K \in Keys : K \notin mismatched

\* C9: a touch_start with neither one nor two touches, a touch_move with
\* fewer than two touches during a pinch, and a touch_move with no touch
\* during a drag raise no error and leave the view and gesture state alone.
C9_MalformedTouchIgnored ==
  [][\A ts \in TouchLists :
       (/\ ~IsNull(prog)
        /\ \/ TouchStart(ts) /\ Len(ts) \notin {1, 2}
           \/ TouchMove(ts) /\ prog.pinch.down /\ Len(ts) < 2
           \/ TouchMove(ts) /\ prog.mouse.down /\ Len(ts) = 0)
       => /\ ~threw'
          /\ prog'.zoom = prog.zoom
          /\ prog'.offset = prog.offset
          /\ prog'.mouse = prog.mouse
          /\ prog'.pinch = prog.pinch]_vars

\* C10: when startup fails, the failure is reported once, no handler is
\* registered, no frame is requested, and nothing runs against the missing
\* session.
C10_StartupFailureStops ==
  startup \in {"nogl", "null"} =>
    /\ alerts = 1
    /\ ~registered
    /\ requests = 0
    /\ draws = 0
    /\ ~threw

\* C11 as stated: a drag move without the modifier moves offset.x by
\* -dx * scale / (W / H) and offset.y by +dy * scale * (W / H), clamped,
\* with scale = 2 / (zoom * W); from offset (0, 0) at zoom 0.001 on an
\* 800x600 canvas, dx = 100 and dy = 0 move offset.x by -187.5.
C11_PanDividesByAspect ==
  [][(DragMoveStep /\ ~prog.keys.shift) =>
       LET dx == prog'.mouse.last.x - prog.mouse.last.x
           dy == prog'.mouse.last.y - prog.mouse.last.y
           W == Num(viewport[1])
           H == Num(viewport[2])
           scale == RDiv(Num(2), RMul(prog.zoom, W))
       IN  /\ prog'.offset.x =
                panlimit(RSub(prog.offset.x,
                              RDiv(RMul(Num(dx), scale), RDiv(W, H))))
           /\ prog'.offset.y =
                panlimit(RAdd(prog.offset.y,
                              RMul(RMul(Num(dy), scale), RDiv(W, H))))
           /\ (/\ viewport = <<800, 600>>
               /\ prog.zoom = Rat(1, 1000)
               /\ prog.offset = [x |-> Num(0), y |-> Num(0)]
               /\ dx = 100
               /\ dy = 0)
              => prog'.offset = [x |-> Rat(-375, 2), y |-> Num(0)]]_vars

\* C11, amended: a drag move without the modifier moves offset.x by
\* -dx * scale, with no aspect-ratio factor, and offset.y by
\* +dy * scale * (W / H), each clamped to the pan limit, with
\* scale = 2 / (zoom * W); the 800x600 scenario moves offset.x by -250.
C11_PanStep ==
  [][(DragMoveStep /\ ~prog.keys.shift) =>
       LET dx == prog'.mouse.last.x - prog.mouse.last.x
           dy == prog'.mouse.last.y - prog.mouse.last.y
           W == Num(viewport[1])
           H == Num(viewport[2])
           scale == RDiv(Num(2), RMul(prog.zoom, W))
       IN  /\ prog'.offset.x =
                panlimit(RSub(prog.offset.x, RMul(Num(dx), scale)))
           /\ prog'.offset.y =
                panlimit(RAdd(prog.offset.y,
                              RMul(RMul(Num(dy), scale), RDiv(W, H))))
           /\ prog'.zoom = prog.zoom
           /\ (/\ viewport = <<800, 600>>
               /\ prog.zoom = Rat(1, 1000)
               /\ prog.offset = [x |-> Num(0), y |-> Num(0)]
               /\ dx = 100
               /\ dy = 0)
              => prog'.offset = [x |-> Num(-250), y |-> Num(0)]]_vars

\* The 800x600 scenario has run: one pan move of dx = 100, dy = 0 made from
\* the initial view.
C11_Witness ==
  /\ ~IsNull(prog)
  /\ viewport = <<800, 600>>
  /\ prog.mouse.down
  /\ dragModes = {"pan"}
  /\ prog.mouse.last = [x |-> 100, y |-> 0]
  /\ prog.zoom = Rat(1, 1000)
  /\ prog.offset = [x |-> Num(-250), y |-> Num(0)]

\* A pinch move: a touch_move handled while only pinch.down holds.  Its
\* effect depends on the touches through their distance alone, so the step
\* is recognised with two touches that far apart.
PinchMoveStep ==
  /\ ~IsNull(prog)
  /\ ~IsNull(prog')
  /\ ~prog.mouse.down
  /\ prog.pinch.down
  /\ requests' = requests + 1
  /\ prog'.pinch.down
  /\ \E pt \in Points :
       /\ magnitude(pt.x, pt.y) = prog'.pinch.distance
       /\ TouchMove(<<Touch([x |-> 0, y |-> 0]), Touch(pt)>>)

\* C12: a zoom step is proportional to the current zoom and floor-clamped.
\* A modifier drag move sets zoom to max(zoom - zoom * dy * 0.01,
\* ZOOM_OUT_LIMIT); a pinch move sets it to max(zoom - zoom * (-delta) *
\* 0.01, ZOOM_OUT_LIMIT), where delta is the distance of this event's two
\* touches minus the distance recorded by the previous pinch start or pinch
\* move.  A pinch from distance 100 to 150 at zoom 0.01 gives zoom 0.015.
C12_ZoomStepProportional ==
  [][/\ (~IsNull(prog) /\ prog.keys.shift /\ DragMoveStep) =>
          LET dy == prog'.mouse.last.y - prog.mouse.last.y
              z == prog.zoom
          IN  prog'.zoom =
                RMax(RSub(z, RMul(RMul(z, Num(dy)), Rat(1, 100))),
                     Rat(1, 1000))
     /\ PinchMoveStep =>
          LET delta == prog'.pinch.distance - prog.pinch.distance
              z == prog.zoom
          IN  /\ prog'.zoom =
                   RMax(RSub(z, RMul(RMul(z, Num(-delta)), Rat(1, 100))),
                        Rat(1, 1000))
              /\ (z = Rat(1, 100) /\ prog.pinch.distance = 100
                                  /\ prog'.pinch.distance = 150)
                 => prog'.zoom = Rat(15, 1000)]_vars

\* The pinch scenario has run: a pinch that stands at distance 150 with the
\* zoom at 0.015.
C12_Witness ==
  /\ ~IsNull(prog)
  /\ prog.pinch.down
  /\ ~prog.mouse.down
  /\ prog.pinch.distance = 150
  /\ prog.zoom = Rat(15, 1000)

\* The point being shaded lies in the disc |c| <= 2.
InDisc == SquaredLength(frag.c) <= 4

\* gl_FragColor has been written.
Shaded == frag.pc = "done"

\* C13: the escape loop is total.  Every invocation, so every one with
\* |c| <= 2, ends after at most MAX passes, and for |c| <= 2 it ends with
\* black or with a ramp colour whose
\* index is finite: every escaped point leaves with x*x + y*y >= 1000, so
\* both logarithms of the smoothing have positive arguments.
C13_EscapeLoopTotal ==
  /\ [](/\ frag.i <= MAX
        /\ frag.broke => frag.i < MAX
        /\ (Shaded /\ InDisc) =>
             \/ frag.color.kind = "black"
             \/ /\ frag.color.kind = "ramp"
                /\ frag.color.zz = SquaredLength(frag.z)
                /\ frag.color.zz >= 1000
                /\ LogLengthDefined(frag.color.zz)
                /\ LogLogDefined(frag.color.zz)
                /\ frag.color.whole \in 1..MAX)
  /\ <>Shaded

\* A point of the disc |c| <= 2 off the axes has escaped and is ramp-coloured.
C13_Witness ==
  /\ frag.pc = "done"
  /\ frag.c = [x |-> 1, y |-> 1]
  /\ frag.broke
  /\ frag.color.kind = "ramp"

\* C14: a pixel is black exactly when none of the iterates z_1 .. z_1024
\* reaches x*x + y*y >= 1000: the loop ran all MAX passes without break.  A
\* point whose loop was left by break, on whichever pass, is ramp-coloured,
\* and so is one whose escape test first succeeds on the last pass, the
\* 1024th; c = (0, 0) never escapes and is black.
C14_BlackIffNeverEscaped ==
  /\ frag.pc \in {"exit", "done"} =>
       /\ ~frag.broke <=> (frag.i = MAX /\ frag.iterations = MAX)
       /\ frag.broke => (/\ frag.iterations = frag.i
                         /\ frag.i <= MAX - 1)
       /\ ~OffLattice =>
            /\ frag.broke => SquaredLength(frag.z) >= 1000
            /\ ~frag.broke => SquaredLength(frag.z) < 1000
       /\ OffLattice =>
            /\ frag.broke <=> FirstEscape(frag.c, frag.round) \in 1..MAX
            /\ frag.broke => frag.i + 1 = FirstEscape(frag.c, frag.round)
  /\ frag.pc = "done" =>
       /\ frag.color.kind = "black" <=> ~frag.broke
       /\ frag.color.kind = "ramp" <=> frag.broke
       /\ ~OffLattice =>
            (frag.c = [x |-> 0, y |-> 0] => frag.color.kind = "black")
       /\ OffLattice =>
            /\ FirstEscape(frag.c, frag.round) = MAX =>
                 (frag.color.kind = "ramp" /\ frag.color.whole = MAX)
            /\ FirstEscape(frag.c, frag.round) > MAX => frag.color.kind = "black"

\* A fragment whose escape test first succeeded on the 1024th pass has been
\* shaded: the loop was left by break with i = iterations = 1023 and the
\* pixel is ramp-coloured.
C14_Witness ==
  /\ frag.pc = "done"
  /\ OffLattice
  /\ FirstEscape(frag.c, frag.round) = MAX
  /\ frag.z.pass = MAX
  /\ frag.broke
  /\ frag.i = MAX - 1
  /\ frag.iterations = MAX - 1
  /\ frag.color.kind = "ramp"

\* C15 as stated: c = (2, 2) leaves the loop through the escape test with
\* the iteration counter equal to 1, and that counter is the iterations of
\* the palette index.
C15_EscapesWithCounterOne ==
  (frag.pc = "done" /\ frag.c = [x |-> 2, y |-> 2]) =>
    /\ frag.broke
    /\ frag.iterations = 1
    /\ frag.color.kind = "ramp"
    /\ frag.color.whole = frag.iterations + 1

\* C15, amended: c = (2, 2) leaves the loop through the escape test on the
\* third pass, at z = (-94, 42), with the iteration counter equal to 2, and
\* that counter is the iterations of the palette index.
C15_EscapesWithCounterTwo ==
  (frag.pc = "done" /\ frag.c = [x |-> 2, y |-> 2]) =>
    /\ frag.broke
    /\ frag.i = 2
    /\ frag.iterations = 2
    /\ frag.z = [x |-> -94, y |-> 42]
    /\ frag.color = [kind |-> "ramp", whole |-> 3, zz |-> 10600]

\* The pixel at c = (2, 2) has been shaded.
C15_Witness ==
  /\ frag.pc = "done"
  /\ frag.c = [x |-> 2, y |-> 2]
  /\ frag.color.kind = "ramp"

\* C16: the matrix mandelbrot_draw uploads is Identity x Scale(1/z, 1/z) x
\* Translate(ox, oy) x Ortho(2/H on x, 2/W on y), each step multiplied on
\* the right: row-major, its diagonal is 2/(z*H), 2/(z*W), 1, 1 and its last
\* row is 2*ox/H, 2*oy/W, 0, 1.  The scale step puts exactly 1/z on the x and
\* y diagonal, and the matrix is a function of the view and viewport only.
C16_DrawMatrix ==
  drawn # NotDrawn =>
    LET z == drawn.zoom
        ox == drawn.offset.x
        oy == drawn.offset.y
        W == Num(viewport[1])
        H == Num(viewport[2])
        two == Num(2)
        S == Matrix_scale(Identity4, z)
    IN  /\ drawn.mvp =
             << RDiv(two, RMul(z, H)), Num(0), Num(0), Num(0),
                Num(0), RDiv(two, RMul(z, W)), Num(0), Num(0),
                Num(0), Num(0), Num(1), Num(0),
                RDiv(RMul(two, ox), H), RDiv(RMul(two, oy), W), Num(0), Num(1) >>
        /\ S[1] = RDiv(Num(1), z)
        /\ S[6] = RDiv(Num(1), z)
        /\ \A k \in (1..16) \ {1, 6} : S[k] = Identity4[k]

\* A frame has drawn a view that was both panned and zoomed.
C16_Witness ==
  /\ drawn # NotDrawn
  /\ drawn.zoom # Rat(1, 1000)
  /\ drawn.offset.x # Num(0)
  /\ draws >= 1

\* No gesture is active in the session.
Idle == ~IsNull(prog) /\ ~prog.mouse.down /\ ~prog.pinch.down

\* C17: every gesture end resets the gesture state.  After mouse_up (also
\* bound to mouseleave) mouse.down is false; after touch_end (also bound to
\* touchcancel) mouse.down and pinch.down are false, whether or not a touch
\* remains; and while no gesture is active no step, so no move of a
\* remaining finger, changes zoom or offset: the next change needs a
\* touch_start or mouse_down first.
C17_GestureEndResets ==
  [][/\ (/\ ~IsNull(prog)
         /\ requests' = requests + 1
         /\ \/ MouseUp([x |-> 0, y |-> 0])
            \/ MouseLeave([x |-> 0, y |-> 0]))
        => ~prog'.mouse.down
     /\ (/\ ~IsNull(prog)
         /\ requests' = requests
         /\ draws' = draws
         /\ \E ts \in {<<>>, <<Touch([x |-> 0, y |-> 0])>>} :
              TouchEnd(ts) \/ TouchCancel(ts))
        => (~prog'.mouse.down /\ ~prog'.pinch.down)
     /\ Idle => (prog'.zoom = prog.zoom /\ prog'.offset = prog.offset)
     /\ (/\ Idle
         /\ requests' = requests + 1
         /\ \E pt \in Points : TouchMove(<<Touch(pt)>>))
        => prog' = prog]_vars

\* A pinch doubled the zoom and has ended: no gesture is active, and an
\* event after the pinch move made the fourth frame request.
C17_Witness ==
  /\ ~IsNull(prog)
  /\ ~prog.mouse.down
  /\ ~prog.pinch.down
  /\ prog.pinch.distance = 100
  /\ prog.zoom = Rat(2, 1000)
  /\ requests = 4

\* C18: each handler writes only its own part of the session.  A modifier
\* drag move leaves the offset and a plain drag move leaves the zoom; a
\* pinch move writes only zoom and pinch.distance, so leaves offset and
\* mouse.last; the key handlers write only keys.shift; zoom or offset change
\* in no step but a drag move or a pinch move, so mouse_down, mouse_up,
\* touch_start and touch_end leave both; and a frame's draws leave the whole
\* session.
C18_HandlerFrames ==
  [][/\ (~IsNull(prog) /\ DragMoveStep) =>
          IF prog.keys.shift
            THEN prog'.offset = prog.offset
            ELSE prog'.zoom = prog.zoom
     /\ PinchMoveStep =>
          prog' = [prog EXCEPT !.zoom = prog'.zoom,
                               !.pinch.distance = prog'.pinch.distance]
     /\ (/\ ~IsNull(prog)
         /\ requests' = requests
         /\ draws' = draws
         /\ \E k \in Keys : KeyDown(k) \/ KeyUp(k))
        => prog' = [prog EXCEPT !.keys.shift = prog'.keys.shift]
     /\ (/\ ~IsNull(prog)
         /\ ~IsNull(prog')
         /\ (prog'.zoom # prog.zoom \/ prog'.offset # prog.offset))
        => (DragMoveStep \/ PinchMoveStep)
     /\ (~IsNull(prog) /\ draws' # draws) => prog' = prog]_vars

\* A drag with the modifier held has zoomed and left the offset where the
\* session started it, and a frame has drawn since.
C18_Witness ==
  /\ ~IsNull(prog)
  /\ prog.mouse.down
  /\ prog.keys.shift
  /\ dragModes = {"zoom"}
  /\ prog.zoom # Rat(1, 1000)
  /\ prog.offset = [x |-> Num(0), y |-> Num(0)]
  /\ draws >= 1

\* The session exists.
HasSession == ~IsNull(prog)

\* The last draw used the zoom and offset the session has now.
ViewDrawn ==
  /\ ~IsNull(prog)
  /\ drawn # NotDrawn
  /\ drawn.zoom = prog.zoom
  /\ drawn.offset = prog.offset

\* C19: every view change is followed by a redraw.  When a handler changes
\* zoom or offset it has requested a frame, so at least one request is
\* pending when it returns; while no request is pending the view last drawn
\* is the current zoom and offset; and, the host running the callbacks it
\* was asked to run, a draw with the latest zoom and offset always comes.
C19_ViewChangeRedrawn ==
  /\ [][(/\ ~IsNull(prog)
         /\ ~IsNull(prog')
         /\ (prog'.zoom # prog.zoom \/ prog'.offset # prog.offset))
        => (requests' > requests /\ pending' >= 1)]_vars
  /\ []((HasSession /\ pending = 0) => ViewDrawn)
  /\ [](HasSession => <>ViewDrawn)

\* A panned and zoomed view has been drawn and nothing is pending.
C19_Witness ==
  /\ ViewDrawn
  /\ pending = 0
  /\ prog.zoom # Rat(1, 1000)
  /\ prog.offset.x # Num(0)

\* C20: without an active gesture no move changes the view: mouse_move only
\* records the position in mouse.last and touch_move changes nothing.
\* mouse_down and a one-touch touch_start record the press position in
\* mouse.last; until the first move of the drag only another press rewrites
\* it; and the first move takes its dx, dy from it.  So the first delta of a
\* drag is measured from the press position, never from a position recorded
\* before the press.
C20_DragStartsAtPress ==
  [][/\ Idle => (prog'.zoom = prog.zoom /\ prog'.offset = prog.offset)
     /\ (Idle /\ requests' = requests /\ MouseMove(prog'.mouse.last))
        => prog' = [prog EXCEPT !.mouse.last = prog'.mouse.last]
     /\ (/\ Idle
         /\ requests' = requests + 1
         /\ \E pt \in Points : TouchMove(<<Touch(pt)>>))
        => prog' = prog
     /\ (~IsNull(prog) /\ requests' = requests + 1) =>
          \A press \in Points :
            (MouseDown(press) \/ TouchStart(<<Touch(press)>>))
            => (prog'.mouse.down /\ prog'.mouse.last = press)
     /\ (/\ ~IsNull(prog)
         /\ ~IsNull(prog')
         /\ prog.mouse.down
         /\ dragModes = {}
         /\ prog'.mouse.last # prog.mouse.last)
        => \/ MouseDown(prog'.mouse.last)
           \/ TouchStart(<<Touch(prog'.mouse.last)>>)
           \/ /\ DragMoveStep
              /\ LET dx == prog'.mouse.last.x - prog.mouse.last.x
                     dy == prog'.mouse.last.y - prog.mouse.last.y
                 IN  IF prog.keys.shift
                       THEN prog'.zoom = ZoomStep(prog.zoom, dy)
                       ELSE prog'.offset =
                              [x |-> PanX(prog.offset.x, dx, prog.zoom),
                               y |-> PanY(prog.offset.y, dy, prog.zoom)]]_vars

\* On the 800x600 canvas a press at (100, 0), away from the position (0, 0)
\* recorded before it, and a first move back to (0, 0) have panned by
\* dx = -100.
C20_Witness ==
  /\ ~IsNull(prog)
  /\ viewport = <<800, 600>>
  /\ prog.mouse.down
  /\ dragModes = {"pan"}
  /\ prog.mouse.last = [x |-> 0, y |-> 0]
  /\ prog.offset = [x |-> Num(250), y |-> Num(0)]
  /\ requests = 3

====
